---- MODULE Spec2Model ----
(***************************************************************************)
(* Room lifecycle webhooks of cloudscript.js (RoomCreated, RoomJoined,     *)
(* RoomLeft, RoomClosed, InitGameList) over the shared-group store.        *)
(*                                                                         *)
(* A shared group is a map from keys to strings.  updateSharedGroupData    *)
(* JSON.stringify-es every value that is not already a string, and         *)
(* getSharedGroupData JSON.parse-s every value.  For the objects and       *)
(* numbers the handlers write, parse(stringify(v)) = v, so a room group is *)
(* held here by its parsed values.  updateSharedGroupData stringifies IN   *)
(* PLACE (line 80), so an object written a second time (lines 406, 498)    *)
(* carries string-valued fields: an index entry records that in strFields. *)
(***************************************************************************)
EXTENDS Integers, FiniteSets, Sequences, TLC

\* ------------------------------------------------------------ bounds
MaxActorNr == 3      \* actor numbers 1..MaxActorNr; NextActorNr <= MaxActorNr + 1
MaxClock == 3        \* timestamps 1..MaxClock

\* ------------------------------------------------------------ domains
Players == {"U1", "U2"}
Games == {"G1"}
Undef == "undefined"                 \* undefined / null of a string-valued field
NoNum == -1                          \* undefined / null of a number-valued field
Payloads == {"S1", "S2"}             \* opaque State payloads of Save events

\* LeaveReason, lines 179-182: type name -> reason code
LeaveTypes ==
    {"ClientDisconnect", "ClientTimeoutDisconnect", "ManagedDisconnect",
     "ServerDisconnect", "TimeoutDisconnect", "ConnectTimeout", "SwitchRoom",
     "LeaveRequest", "PlayerTtlTimedOut", "PeerLastTouchTimedout",
     "PluginRequest", "PluginFailedJoin"}

LeaveReason ==
    [t \in LeaveTypes |->
        CASE t = "ClientDisconnect" -> "0"
          [] t = "ClientTimeoutDisconnect" -> "1"
          [] t = "ManagedDisconnect" -> "2"
          [] t = "ServerDisconnect" -> "3"
          [] t = "TimeoutDisconnect" -> "4"
          [] t = "ConnectTimeout" -> "5"
          [] t = "SwitchRoom" -> "100"
          [] t = "LeaveRequest" -> "101"
          [] t = "PlayerTtlTimedOut" -> "102"
          [] t = "PeerLastTouchTimedout" -> "103"
          [] t = "PluginRequest" -> "104"
          [] t = "PluginFailedJoin" -> "105"]

\* the reason codes line 294 rejects
RejectedReasons == {"1", "100", "103", "105"}

\* ------------------------------------------------------------ values
\* CreateOptions / RoomOptions object; present = FALSE is undefined
NoOptions == [present |-> FALSE, MaxPlayers |-> 0, PlayerTTL |-> 0, CheckUserOnJoin |-> FALSE]

Options(mp, ttl, chk) ==
    [present |-> TRUE, MaxPlayers |-> mp, PlayerTTL |-> ttl, CheckUserOnJoin |-> chk]

NoEnv == [present |-> FALSE, WebhooksVersion |-> "1.0"]
NoCreation == [Timestamp |-> NoNum, UserId |-> Undef, Type |-> Undef]
NoActors == [n \in {} |-> [UserId |-> Undef, Inactive |-> FALSE]]
NoLog == [t \in {} |-> [ActorNr |-> NoNum, UserId |-> Undef, CanRejoin |-> "undefined"]]
NoSaves == [t \in {} |-> [ActorCount |-> NoNum]]

\* the event envelope (args); absent fields hold Undef / NoNum / FALSE / NoOptions
NoArgs ==
    [AppId |-> FALSE, AppVersion |-> FALSE, Region |-> FALSE, GameId |-> Undef,
     Type |-> Undef, ActorNr |-> NoNum, UserId |-> Undef, Username |-> FALSE,
     Nickname |-> FALSE, ActorCount |-> NoNum, ActorListLen |-> NoNum,
     CreateIfNotExists |-> "undefined", CreateOptions |-> NoOptions,
     State |-> Undef, IsInactive |-> "undefined", Reason |-> Undef,
     Inactive |-> "undefined", RoomOptions |-> NoOptions,
     TargetActor |-> FALSE, Properties |-> FALSE, Data |-> FALSE]

\* ------------------------------------------------------------ validator
\* checkWebhookArgs, lines 184-302: the PhotonException it throws, or code 0
Ok == [ResultCode |-> 0, Message |-> "OK"]
Exc(code, msg) == [ResultCode |-> code, Message |-> msg]

\* checkLeaveArgs without the check of line 294
checkLeaveArgs_NoRejectedReasons(args) ==
    IF args.Type \in LeaveTypes
    THEN IF args.IsInactive = "undefined" THEN Exc(1, "Missing argument: IsInactive")
         ELSE IF args.Reason = Undef THEN Exc(1, "Missing argument: Reason")
         ELSE IF LeaveReason[args.Type] # args.Reason
              THEN Exc(2, "Reason code does not match Leave Type string")
         ELSE Ok
    ELSE Exc(2, "Unexpected Type")

checkLeaveArgs(args) ==
    IF args.Type \in LeaveTypes
    THEN IF args.IsInactive = "undefined" THEN Exc(1, "Missing argument: IsInactive")
         ELSE IF args.Reason = Undef THEN Exc(1, "Missing argument: Reason")
         ELSE IF LeaveReason[args.Type] # args.Reason
              THEN Exc(2, "Reason code does not match Leave Type string")
         ELSE IF args.Reason \in RejectedReasons THEN Exc(2, "Unexpected LeaveReason")
         ELSE Ok
    ELSE Exc(2, "Unexpected Type")

\* checkTypeArgs without the check of line 235
checkTypeArgs_NoActorNrCheck(args) ==
    CASE args.Type = "Load" ->
           IF args.CreateIfNotExists = "undefined"
           THEN Exc(1, "Missing argument: CreateIfNotExists") ELSE Ok
      [] args.Type = "Create" ->
           IF ~args.CreateOptions.present THEN Exc(1, "Missing argument: CreateOptions")
           ELSE Ok
      [] args.Type = "Join" -> Ok
      [] args.Type = "Save" ->
           IF args.State = Undef THEN Exc(1, "Missing argument: State")
           ELSE IF args.ActorCount <= 0 THEN Exc(2, "ActorCount <= 0 and Type == Save")
           ELSE Ok
      [] args.Type = "Close" ->
           IF args.ActorCount # 0 THEN Exc(2, "ActorCount != 0 and Type == Close")
           ELSE Ok
      [] args.Type = "Leave" -> Exc(2, "Deprecated forward plugin webhook!")
      [] OTHER -> checkLeaveArgs(args)

checkTypeArgs(args) ==
    CASE args.Type = "Load" ->
           IF args.CreateIfNotExists = "undefined"
           THEN Exc(1, "Missing argument: CreateIfNotExists") ELSE Ok
      [] args.Type = "Create" ->
           IF ~args.CreateOptions.present THEN Exc(1, "Missing argument: CreateOptions")
           ELSE IF args.ActorNr # 1 THEN Exc(2, "ActorNr != 1 and Type == Create")
           ELSE Ok
      [] args.Type = "Join" -> Ok
      [] args.Type = "Player" ->
           IF ~args.TargetActor THEN Exc(1, "Missing argument: TargetActor")
           ELSE IF ~args.Properties THEN Exc(1, "Missing argument: Properties")
           ELSE IF args.Username /\ args.State = Undef THEN Exc(1, "Missing argument: State")
           ELSE Ok
      [] args.Type = "Game" ->
           IF ~args.Properties THEN Exc(1, "Missing argument: Properties")
           ELSE IF args.Username /\ args.State = Undef THEN Exc(1, "Missing argument: State")
           ELSE Ok
      [] args.Type = "Event" ->
           IF ~args.Data THEN Exc(1, "Missing argument: Data")
           ELSE IF args.Username /\ args.State = Undef THEN Exc(1, "Missing argument: State")
           ELSE Ok
      [] args.Type = "Save" ->
           IF args.State = Undef THEN Exc(1, "Missing argument: State")
           ELSE IF args.ActorCount <= 0 THEN Exc(2, "ActorCount <= 0 and Type == Save")
           ELSE Ok
      [] args.Type = "Close" ->
           IF args.ActorCount # 0 THEN Exc(2, "ActorCount != 0 and Type == Close")
           ELSE Ok
      [] args.Type = "Leave" -> Exc(2, "Deprecated forward plugin webhook!")
      [] OTHER -> checkLeaveArgs(args)

checkWebhookArgs(args, currentPlayerId) ==
    IF ~args.AppId THEN Exc(1, "Missing argument: AppId")
    ELSE IF ~args.AppVersion THEN Exc(1, "Missing argument: AppVersion")
    ELSE IF ~args.Region THEN Exc(1, "Missing argument: Region")
    ELSE IF args.GameId = Undef THEN Exc(1, "Missing argument: GameId")
    ELSE IF args.Type = Undef THEN Exc(1, "Missing argument: Type")
    ELSE IF args.Type \notin {"Close", "Save"}
         THEN IF args.ActorNr = NoNum THEN Exc(1, "Missing argument: ActorNr")
              ELSE IF args.UserId = Undef THEN Exc(1, "Missing argument: UserId")
              ELSE IF args.UserId # currentPlayerId
                   THEN Exc(3, "currentPlayerId does not match UserId")
              ELSE IF ~args.Username /\ ~args.Nickname
                   THEN Exc(1, "Missing argument: Username/Nickname")
              ELSE checkTypeArgs(args)
         ELSE IF args.ActorCount = NoNum THEN Exc(1, "Missing argument: ActorCount")
              ELSE IF args.ActorListLen # NoNum /\ args.ActorListLen # args.ActorCount
                   THEN Exc(2, "ActorCount does not match ActorList.count")
              ELSE checkTypeArgs(args)

\* ------------------------------------------------------------ state
VARIABLES
    rooms,     \* room shared groups: GameId -> room record (exists = FALSE: no group)
    lists,     \* game-list shared groups: player -> [exists, entries: GameId -> entry]
    clock,     \* the latest timestamp written to the store
    last,      \* the last handler invocation: its name, its response, its audit writes
    procs      \* handler invocations in flight (concurrent delivery): process -> its
               \* position, envelope, the record it read and the data it computed

vars == <<rooms, lists, clock, last, procs>>

NoRoom ==
    [exists |-> FALSE, Env |-> NoEnv, RoomOptions |-> NoOptions, Creation |-> NoCreation,
     Actors |-> NoActors, NextActorNr |-> NoNum, JoinEvents |-> NoLog, LeaveEvents |-> NoLog]

\* one key of a game-list group.  keys: the properties of the stored object;
\* strFields: the properties Env, RoomOptions, Creation, Actors, NextActorNr
\* hold JSON strings (the object was stringified in place before it was stored)
NoEntry ==
    [present |-> FALSE, strFields |-> FALSE, keys |-> {}, Env |-> NoEnv,
     RoomOptions |-> NoOptions, Creation |-> NoCreation, Actors |-> NoActors,
     NextActorNr |-> NoNum, JoinEvents |-> NoLog, LeaveEvents |-> NoLog,
     SaveEvents |-> NoSaves, State |-> Undef, ActorNr |-> NoNum]

NoList == [exists |-> FALSE, entries |-> [g \in Games |-> NoEntry]]

NoRes == [kind |-> "none", ResultCode |-> 0, Message |-> "", State |-> Undef]

\* the invocations that may be in flight at once
Procs == {1, 2}

\* no invocation in flight for this process
Idle ==
    [pc |-> "idle", handler |-> "none", args |-> NoArgs, read |-> NoRoom, data |-> NoRoom,
     stale |-> FALSE, res |-> NoRes]

Init ==
    /\ rooms = [g \in Games |-> NoRoom]
    /\ lists = [p \in Players |-> NoList]
    /\ clock = 0
    /\ last = [handler |-> "none", res |-> NoRes, audit |-> 0]
    /\ procs = [i \in Procs |-> Idle]

\* ------------------------------------------------------------ responses
\* what a handler's try/catch returns (lines 453-458 and alike)
Return(code, msg) == [kind |-> "return", ResultCode |-> code, Message |-> msg, State |-> Undef]

\* a PhotonException caught at the boundary: { ResultCode: e.ResultCode, Message: e.Message }
Caught(e) == Return(e.ResultCode, e.Message)

\* any other exception caught at the boundary: ResultCode -1, e.name + ': ' + e.message
Unexpected(name) == Return(-1, name)

\* an exception thrown outside the handler's try block
Uncaught(name) == [kind |-> "uncaught", ResultCode |-> -1, Message |-> name, State |-> Undef]

\* Outcome with the audit record dropped: logException writes nothing
Outcome_NoAuditWrite(rm, ls, res, audit) == [rooms |-> rm, lists |-> ls, res |-> res, audit |-> 0]

\* the outcome of one invocation: the store it leaves, the response, and the
\* number of audit records logException wrote (one per PhotonException built)
Outcome(rm, ls, res, audit) == [rooms |-> rm, lists |-> ls, res |-> res, audit |-> audit]

\* ------------------------------------------------------------ store adapter
\* Object.keys(data.Actors).length
ActorCountOf(room) == Cardinality(DOMAIN room.Actors)

\* updateSharedGroupEntry(getGamesListId(p), g, value), lines 127-136
updateSharedGroupEntry(ls, p, g, entry) == [ls EXCEPT ![p].entries[g] = entry]

\* deleteSharedGroupEntry: updateSharedGroupEntry(id, key, null), lines 138-145
deleteSharedGroupEntry(ls, p, g) == updateSharedGroupEntry(ls, p, g, NoEntry)

\* deleteSharedGroup leaving the group in place
deleteSharedGroup_KeepsGroup(rm, g) == rm

\* deleteSharedGroup, lines 109-116
deleteSharedGroup(rm, g) == [rm EXCEPT ![g] = NoRoom]

\* the object onGameCreated hands to updateSharedGroupEntry at line 406: by
\* then updateSharedGroupData (line 80) has replaced each property by its
\* JSON string
CreatedEntry(room) ==
    [NoEntry EXCEPT !.present = TRUE, !.strFields = TRUE,
                    !.keys = {"Env", "RoomOptions", "Creation", "Actors", "NextActorNr"},
                    !.Env = room.Env, !.RoomOptions = room.RoomOptions,
                    !.Creation = room.Creation, !.Actors = room.Actors,
                    !.NextActorNr = room.NextActorNr]

\* { Env: data.Env, Creation: data.Creation, ActorNr: args.ActorNr }, line 498:
\* data.Env and data.Creation are JSON strings after line 497
JoinedEntry(room, actorNr) ==
    [NoEntry EXCEPT !.present = TRUE, !.strFields = TRUE,
                    !.keys = {"Env", "Creation", "ActorNr"},
                    !.Env = room.Env, !.Creation = room.Creation, !.ActorNr = actorNr]

LogKeys(name, log) == IF DOMAIN log = {} THEN {} ELSE {name}

\* SavedEntry with line 573 (data.State = args.State) left out
SavedEntry_NoState(room, saves, state) ==
    [NoEntry EXCEPT !.present = TRUE, !.strFields = FALSE,
                    !.keys = {"Env", "RoomOptions", "Creation", "Actors", "NextActorNr",
                              "SaveEvents"}
                              \cup LogKeys("JoinEvents", room.JoinEvents)
                              \cup LogKeys("LeaveEvents", room.LeaveEvents),
                    !.Env = room.Env, !.RoomOptions = room.RoomOptions,
                    !.Creation = room.Creation, !.Actors = room.Actors,
                    !.NextActorNr = room.NextActorNr, !.JoinEvents = room.JoinEvents,
                    !.LeaveEvents = room.LeaveEvents, !.SaveEvents = saves]

\* the parsed room data plus SaveEvents and State, line 574
SavedEntry(room, saves, state) ==
    [NoEntry EXCEPT !.present = TRUE, !.strFields = FALSE,
                    !.keys = {"Env", "RoomOptions", "Creation", "Actors", "NextActorNr",
                              "SaveEvents", "State"}
                              \cup LogKeys("JoinEvents", room.JoinEvents)
                              \cup LogKeys("LeaveEvents", room.LeaveEvents),
                    !.Env = room.Env, !.RoomOptions = room.RoomOptions,
                    !.Creation = room.Creation, !.Actors = room.Actors,
                    !.NextActorNr = room.NextActorNr, !.JoinEvents = room.JoinEvents,
                    !.LeaveEvents = room.LeaveEvents, !.SaveEvents = saves,
                    !.State = state]

\* ------------------------------------------------------------ handlers
\* onGameCreated, lines 380-409.  createSharedGroup's failure on an existing
\* group is caught and only sets a message (lines 386-394); the five keys are
\* then written whether or not the group existed.  UpdateSharedGroupData
\* merges: keys it does not name (the event logs) keep their values.
NewRoomData(old, args, timestamp) ==
    [old EXCEPT
        !.exists = TRUE,
        !.Env = [present |-> TRUE,
                 WebhooksVersion |-> IF ~args.Nickname THEN "1.0" ELSE "1.2"],
        !.RoomOptions = args.CreateOptions,
        !.Creation = [Timestamp |-> timestamp, UserId |-> args.UserId, Type |-> args.Type],
        !.Actors = (1 :> [UserId |-> args.UserId, Inactive |-> FALSE]),
        !.NextActorNr = 2]

onGameCreated(rm, ls, args, currentPlayerId, timestamp) ==
    LET g == args.GameId
        data == NewRoomData(rm[g], args, timestamp)
        rm1 == [rm EXCEPT ![g] = data]                                 \* line 405
    IN  IF ~ls[currentPlayerId].exists
        THEN Outcome(rm1, ls, Unexpected("PlayFabError"), 0)             \* line 406 throws
        ELSE Outcome(rm1, updateSharedGroupEntry(ls, currentPlayerId, g, CreatedEntry(data)),
                     Return(0, "OK"), 0)

\* handlers.RoomCreated, lines 420-459
RoomCreated(rm, ls, args, currentPlayerId, timestamp) ==
    LET chk == checkWebhookArgs(args, currentPlayerId) IN
    IF ~args.CreateOptions.present
    THEN Outcome(rm, ls, Uncaught("TypeError"), 0)        \* line 422, outside the try
    ELSE IF chk.ResultCode # 0 THEN Outcome(rm, ls, Caught(chk), 1)
    ELSE IF args.Type = "Create"
         THEN onGameCreated(rm, ls, args, currentPlayerId, timestamp)
    ELSE IF args.Type = "Load"
         THEN \* line 431: the caller's game list must exist to be read.
              \* getSharedGroupEntry returns the map { <GameId>: entry }, so
              \* data.Creation (line 432) is the value under the key
              \* "Creation": undefined for every room id of Games, and
              \* data.Creation.UserId throws a TypeError.  Lines 433-449 are
              \* never reached.
              IF ~ls[currentPlayerId].exists
              THEN Outcome(rm, ls, Unexpected("PlayFabError"), 0)
              ELSE Outcome(rm, ls, Unexpected("TypeError"), 0)
    ELSE Outcome(rm, ls, Caught(Exc(2, "Wrong PathCreate Type")), 1)

\* JoinRoster with line 489 (the increment of NextActorNr) left out
JoinRoster_NoIncrement(data, args) ==
    IF data.NextActorNr = args.ActorNr /\ args.RoomOptions.present
       /\ ActorCountOf(data) # args.RoomOptions.MaxPlayers
    THEN [exc |-> "none", err |-> Ok,
          Actors |-> (args.ActorNr :> [UserId |-> args.UserId, Inactive |-> FALSE])
                         @@ data.Actors,
          NextActorNr |-> data.NextActorNr]
    ELSE [exc |-> "PhotonException", err |-> Exc(2, "Unexpected ActorNr"),
          Actors |-> data.Actors, NextActorNr |-> data.NextActorNr]

\* JoinRoster with the else branch of line 490 adding the actor instead of
\* throwing
JoinRoster_AcceptsAnyActorNr(data, args) ==
    IF data.RoomOptions.PlayerTTL # 0 /\ data.NextActorNr > args.ActorNr
    THEN [exc |-> "TypeError", err |-> Ok, Actors |-> data.Actors,
          NextActorNr |-> data.NextActorNr]
    ELSE IF data.NextActorNr = args.ActorNr /\ ~args.RoomOptions.present
    THEN [exc |-> "TypeError", err |-> Ok, Actors |-> data.Actors,
          NextActorNr |-> data.NextActorNr]
    ELSE IF data.NextActorNr = args.ActorNr
            /\ ActorCountOf(data) = args.RoomOptions.MaxPlayers
    THEN [exc |-> "PhotonException", err |-> Exc(2, "Actors overflow"),
          Actors |-> data.Actors, NextActorNr |-> data.NextActorNr]
    ELSE [exc |-> "none", err |-> Ok,
          Actors |-> (args.ActorNr :> [UserId |-> args.UserId, Inactive |-> FALSE])
                         @@ data.Actors,
          NextActorNr |-> data.NextActorNr + 1]

\* the roster branch of handlers.RoomJoined, lines 475-492: the thrown
\* exception, or the new Actors and NextActorNr
JoinRoster(data, args) ==
    IF data.RoomOptions.PlayerTTL # 0 /\ data.NextActorNr > args.ActorNr
    THEN \* line 476 reads data.ActiveActors, a key no handler ever writes
         [exc |-> "TypeError", err |-> Ok, Actors |-> data.Actors,
          NextActorNr |-> data.NextActorNr]
    ELSE IF data.NextActorNr = args.ActorNr
    THEN IF ~args.RoomOptions.present         \* line 485 reads args.RoomOptions.MaxPlayers
         THEN [exc |-> "TypeError", err |-> Ok, Actors |-> data.Actors,
               NextActorNr |-> data.NextActorNr]
         ELSE IF ActorCountOf(data) = args.RoomOptions.MaxPlayers
         THEN [exc |-> "PhotonException", err |-> Exc(2, "Actors overflow"),
               Actors |-> data.Actors, NextActorNr |-> data.NextActorNr]
         ELSE [exc |-> "none", err |-> Ok,
               Actors |-> (args.ActorNr :> [UserId |-> args.UserId, Inactive |-> FALSE])
                              @@ data.Actors,
               NextActorNr |-> data.NextActorNr + 1]
    ELSE [exc |-> "PhotonException", err |-> Exc(2, "Unexpected ActorNr"),
          Actors |-> data.Actors, NextActorNr |-> data.NextActorNr]

\* the room data after lines 475-496: the roster r and the join logged
JoinData(room, args, r, timestamp) ==
    [room EXCEPT
        !.Actors = r.Actors,
        !.NextActorNr = r.NextActorNr,
        !.JoinEvents = (timestamp :> [ActorNr |-> args.ActorNr,
                                      UserId |-> args.UserId,
                                      CanRejoin |-> "undefined"])
                         @@ @]

\* handlers.RoomJoined, lines 462-506
RoomJoined(rm, ls, args, currentPlayerId, timestamp) ==
    LET chk == checkWebhookArgs(args, currentPlayerId)
        g == args.GameId
    IN
    IF chk.ResultCode # 0 THEN Outcome(rm, ls, Caught(chk), 1)
    ELSE IF ~rm[g].exists THEN Outcome(rm, ls, Unexpected("PlayFabError"), 0)   \* line 469
    ELSE IF args.Type # "Join" THEN Outcome(rm, ls, Caught(Exc(2, "Wrong PathJoin Type")), 1)
    ELSE LET r == JoinRoster(rm[g], args) IN
         IF r.exc = "TypeError" THEN Outcome(rm, ls, Unexpected("TypeError"), 0)
         ELSE IF r.exc = "PhotonException" THEN Outcome(rm, ls, Caught(r.err), 1)
         ELSE LET data == JoinData(rm[g], args, r, timestamp)
                  rm1 == [rm EXCEPT ![g] = data]                         \* line 497
              IN  IF ~ls[currentPlayerId].exists
                  THEN Outcome(rm1, ls, Unexpected("PlayFabError"), 0)   \* line 498 throws
                  ELSE Outcome(rm1,
                               updateSharedGroupEntry(ls, currentPlayerId, g,
                                                      JoinedEntry(data, args.ActorNr)),
                               Return(0, "OK"), 0)

\* LeaveCheck without the check of line 528
LeaveCheck_NoUserIdCheck(data, args) ==
    IF args.ActorNr \notin DOMAIN data.Actors THEN Exc(2, "No ActorNr inside the room")
    ELSE IF args.Type # LeaveReason["PlayerTtlTimedOut"] /\ data.Actors[args.ActorNr].Inactive
         THEN Exc(2, "Inactive actors cant leave")
    ELSE Ok

\* the checks of handlers.RoomLeft, lines 522-530.  args.Type is a key of
\* LeaveReason (line 517) and LeaveReason.PlayerTtlTimedOut is the code '102',
\* which is no key of LeaveReason: args.Type !== '102' holds for every type.
LeaveCheck(data, args) ==
    IF args.ActorNr \notin DOMAIN data.Actors THEN Exc(2, "No ActorNr inside the room")
    ELSE IF args.Type # LeaveReason["PlayerTtlTimedOut"] /\ data.Actors[args.ActorNr].Inactive
         THEN Exc(2, "Inactive actors cant leave")
    ELSE IF data.Actors[args.ActorNr].UserId # args.UserId
         THEN Exc(2, "Leaving UserId is different from joined")
    ELSE Ok

\* LeaveActors with the else branch of line 533 marking the slot inactive too
LeaveActors_NeverRemoves(data, args) ==
    [data.Actors EXCEPT ![args.ActorNr].Inactive = TRUE]

\* lines 531-536: the handler reads args.Inactive (the validator checked
\* args.IsInactive)
LeaveActors(data, args) ==
    IF args.Inactive = "true"
    THEN [data.Actors EXCEPT ![args.ActorNr].Inactive = TRUE]
    ELSE [n \in DOMAIN data.Actors \ {args.ActorNr} |-> data.Actors[n]]

\* the room data after lines 531-540: the roster updated and the leave logged
LeaveData(room, args, timestamp) ==
    [room EXCEPT
        !.Actors = LeaveActors(room, args),
        !.LeaveEvents = (timestamp :> [ActorNr |-> args.ActorNr,
                                       UserId |-> args.UserId,
                                       CanRejoin |-> args.Inactive])
                          @@ @]

\* handlers.RoomLeft, lines 509-549
RoomLeft(rm, ls, args, currentPlayerId, timestamp) ==
    LET chk == checkWebhookArgs(args, currentPlayerId)
        g == args.GameId
    IN
    IF chk.ResultCode # 0 THEN Outcome(rm, ls, Caught(chk), 1)
    ELSE IF ~rm[g].exists THEN Outcome(rm, ls, Unexpected("PlayFabError"), 0)   \* line 516
    ELSE IF args.Type \notin LeaveTypes
         THEN Outcome(rm, ls, Caught(Exc(2, "Wrong PathLeave Type")), 1)
    ELSE LET c == LeaveCheck(rm[g], args) IN
         IF c.ResultCode # 0 THEN Outcome(rm, ls, Caught(c), 1)
         ELSE IF args.Inactive # "true" /\ ~ls[currentPlayerId].exists
              THEN Outcome(rm, ls, Unexpected("PlayFabError"), 0)        \* line 535 throws
         ELSE LET data == LeaveData(rm[g], args, timestamp)
                  ls1 == IF args.Inactive = "true" THEN ls
                         ELSE deleteSharedGroupEntry(ls, currentPlayerId, g)
              IN  Outcome([rm EXCEPT ![g] = data], ls1, Return(0, "OK"), 0)

\* CountMismatch with the check of line 561 never failing
CountMismatch_Never(data, args) == FALSE

\* line 561: Object.keys(data.Actors).length !== args.ActorCount
CountMismatch(data, args) == ActorCountOf(data) # args.ActorCount

\* handlers.RoomClosed, lines 553-586
RoomClosed(rm, ls, args, currentPlayerId, timestamp) ==
    LET chk == checkWebhookArgs(args, currentPlayerId)
        g == args.GameId
    IN
    IF chk.ResultCode # 0 THEN Outcome(rm, ls, Caught(chk), 1)
    ELSE IF ~rm[g].exists THEN Outcome(rm, ls, Unexpected("PlayFabError"), 0)   \* line 560
    ELSE IF CountMismatch(rm[g], args)
         THEN Outcome(rm, ls, Caught(Exc(6, "Actors count does not match")), 1)
    ELSE LET creator == rm[g].Creation.UserId IN
         IF args.Type = "Close"
         THEN IF ~ls[creator].exists
              THEN Outcome(rm, ls, Unexpected("PlayFabError"), 0)        \* line 567 throws
              ELSE Outcome(deleteSharedGroup(rm, g), deleteSharedGroupEntry(ls, creator, g),
                           Return(0, "OK"), 0)
         ELSE IF args.Type = "Save"
         THEN IF ~ls[creator].exists
              THEN Outcome(rm, ls, Unexpected("PlayFabError"), 0)        \* line 574 throws
              ELSE Outcome(deleteSharedGroup(rm, g),
                           updateSharedGroupEntry(ls, creator, g,
                               SavedEntry(rm[g], (timestamp :> [ActorCount |-> args.ActorCount]),
                                          args.State)),
                           Return(0, "OK"), 0)
         ELSE Outcome(rm, ls, Caught(Exc(2, "Wrong PathClose Type")), 1)

\* handlers.InitGameList, lines 615-642: creates the caller's game list; an
\* existing list is a caught error and the response is 0 either way
InitGameList(rm, ls, args, currentPlayerId, timestamp) ==
    Outcome(rm, [ls EXCEPT ![currentPlayerId].exists = TRUE], Return(0, "game list"), 0)

\* ------------------------------------------------------------ GetGameList
\* checkWebRpcArgs, lines 304-319
checkWebRpcArgs(args) ==
    IF ~args.AppId THEN Exc(1, "Missing argument: AppId")
    ELSE IF ~args.AppVersion THEN Exc(1, "Missing argument: AppVersion")
    ELSE IF ~args.Region THEN Exc(1, "Missing argument: Region")
    ELSE IF args.UserId = Undef THEN Exc(1, "Missing argument: UserId")
    ELSE Ok

\* State.CustomProperties of a saved State payload
CustomProperties(state) == [CustomPropertiesOf |-> state]

\* no Properties key in an element of Data
NoProperties == [CustomPropertiesOf |-> Undef]

\* gameList[gameKey].Creation.UserId, line 347: Creation is a JSON string in
\* the entries written by lines 406 and 498, and a string has no UserId
CreationUserIdRead(e) == IF e.strFields THEN Undef ELSE e.Creation.UserId

\* gameList[gameKey].ActorNr, line 350
ActorNrRead(e) == IF "ActorNr" \in e.keys THEN e.ActorNr ELSE NoNum

\* GameListOutcome with the caller's reads clearing the entries they return
GameListOutcome_ClearsEntries(rm, ls, res, audit, data) ==
    [rooms |-> rm,
     lists |-> [p \in Players |-> [ls[p] EXCEPT !.entries = [g \in Games |-> NoEntry]]],
     res |-> res, audit |-> audit, Data |-> data]

\* the response of GetGameList with its Data
GameListOutcome(rm, ls, res, audit, data) ==
    [rooms |-> rm, lists |-> ls, res |-> res, audit |-> audit, Data |-> data]

\* GetGameList, lines 334-378.  The first loop (345-358) fills Data from the
\* caller's game list; the second (360-369) reads the game list of every
\* other creator found, named by Creation.UserId: for an entry whose
\* Creation is a string that is the group of "undefined", which does not
\* exist.  The Keys passed at line 362 are the elements of Data, not room
\* ids, so the read of an existing group matches no key and adds nothing.
GetGameList(rm, ls, args, currentPlayerId, timestamp) ==
    LET chk == checkWebRpcArgs(args)
        gameList == ls[currentPlayerId].entries
        keys == {g \in Games : gameList[g].present}
        own == {g \in keys : CreationUserIdRead(gameList[g]) = currentPlayerId}
        listToLoad == {CreationUserIdRead(gameList[g]) : g \in keys \ own}
        data == [g \in keys |->
                    IF g \in own
                    THEN [ActorNr |-> 1, Properties |-> CustomProperties(gameList[g].State)]
                    ELSE [ActorNr |-> ActorNrRead(gameList[g]), Properties |-> NoProperties]]
        none == [g \in {} |-> [ActorNr |-> NoNum, Properties |-> NoProperties]]
    IN  IF chk.ResultCode # 0 THEN GameListOutcome(rm, ls, Caught(chk), 1, none)
        ELSE IF ~ls[currentPlayerId].exists                              \* line 342
             THEN GameListOutcome(rm, ls, Unexpected("PlayFabError"), 0, none)
        ELSE IF \E g \in own : "State" \notin gameList[g].keys          \* line 348
             THEN GameListOutcome(rm, ls, Unexpected("TypeError"), 0, none)
        ELSE IF \E u \in listToLoad : u \notin Players \/ ~ls[u].exists  \* line 362
             THEN GameListOutcome(rm, ls, Unexpected("PlayFabError"), 0, none)
        ELSE GameListOutcome(rm, ls, Return(0, "OK"), 0, data)

\* ------------------------------------------------------------ events
\* the envelopes the relay delivers: well-formed ones of each type, and
\* malformed ones
Base(g, type) ==
    [NoArgs EXCEPT !.AppId = TRUE, !.AppVersion = TRUE, !.Region = TRUE,
                   !.GameId = g, !.Type = type, !.Nickname = TRUE]

OptionsSet == {Options(1, 1, TRUE), Options(2, 0, FALSE)}

CreateEvents ==
    {[Base(g, "Create") EXCEPT !.ActorNr = 1, !.UserId = u, !.CreateOptions = o] :
        g \in Games, u \in Players, o \in OptionsSet}
    \cup {[Base(g, "Create") EXCEPT !.ActorNr = n, !.UserId = "U1", !.CreateOptions = o] :
            g \in Games, n \in {0, 2}, o \in {Options(2, 0, FALSE), NoOptions}}
    \cup {[Base(g, "Create") EXCEPT !.ActorNr = 1, !.UserId = "U1", !.Nickname = FALSE,
                                    !.Username = un, !.CreateOptions = Options(2, 0, FALSE)] :
            g \in Games, un \in BOOLEAN}

LoadEvents ==
    {[Base(g, "Load") EXCEPT !.ActorNr = 1, !.UserId = u, !.CreateIfNotExists = c,
                             !.CreateOptions = Options(2, 0, FALSE)] :
        g \in Games, u \in Players, c \in {"true", "false"}}
    \cup {[Base(g, "Load") EXCEPT !.ActorNr = 1, !.UserId = "U1", !.CreateIfNotExists = "true"] :
            g \in Games}

JoinEvents ==
    {[Base(g, "Join") EXCEPT !.ActorNr = n, !.UserId = u, !.RoomOptions = o] :
        g \in Games, n \in 1..MaxActorNr, u \in Players,
        o \in {NoOptions, Options(1, 0, FALSE), Options(2, 0, FALSE)}}

LeaveFlags == {<<"true", "undefined">>, <<"false", "undefined">>,
               <<"true", "true">>, <<"false", "true">>}

LeaveEvents ==
    {[Base(g, "LeaveRequest") EXCEPT !.ActorNr = n, !.UserId = u, !.Reason = "101",
                                     !.IsInactive = f[1], !.Inactive = f[2]] :
        g \in Games, n \in 1..MaxActorNr, u \in Players, f \in LeaveFlags}
    \cup {[Base(g, "PlayerTtlTimedOut") EXCEPT !.ActorNr = n, !.UserId = u, !.Reason = "102",
                                     !.IsInactive = "false"] :
            g \in Games, n \in 1..MaxActorNr, u \in Players}

CloseEvents ==
    {[Base(g, "Close") EXCEPT !.Nickname = FALSE, !.ActorCount = c] :
        g \in Games, c \in {0, 1}}
    \cup {[Base(g, "Save") EXCEPT !.Nickname = FALSE, !.ActorCount = c, !.State = st] :
            g \in Games, c \in 1..MaxActorNr, st \in Payloads}

\* the queries GetGameList receives: well-formed ones and one without Region
RpcEvents ==
    {[NoArgs EXCEPT !.AppId = TRUE, !.AppVersion = TRUE, !.Region = r, !.UserId = u] :
        u \in Players, r \in BOOLEAN}

\* the authenticated caller of an event: its UserId, or (for the first
\* player's events) somebody else
Callers(args) == {args.UserId} \cup (IF args.UserId = "U1" THEN {"U2"} ELSE {})

\* ------------------------------------------------------------ actions
\* The code uses a timestamp as an opaque key and value only.  Invocations
\* are sequential, and the model numbers the timestamps that reach the
\* store: an invocation reads clock + 1 (getISOTimestamp), and the clock
\* keeps that value when the invocation wrote to the store.
Now == clock + 1

\* one webhook invocation: the handler runs to its response and leaves the
\* store as its calls made it
Handle(name, out) ==
    /\ clock < MaxClock
    /\ rooms' = out.rooms
    /\ lists' = out.lists
    /\ clock' = IF out.rooms = rooms /\ out.lists = lists THEN clock ELSE Now
    /\ last' = [handler |-> name, res |-> out.res, audit |-> out.audit]
    /\ procs' = procs

DoInitGameList ==
    \E p \in Players :
        /\ rooms' = rooms
        /\ lists' = InitGameList(rooms, lists, NoArgs, p, Now).lists
        /\ clock' = clock
        /\ last' = [handler |-> "InitGameList",
                    res |-> InitGameList(rooms, lists, NoArgs, p, Now).res, audit |-> 0]
        /\ procs' = procs

DoRoomCreated ==
    \E args \in CreateEvents \cup LoadEvents :
        \E p \in Callers(args) :
            Handle("RoomCreated", RoomCreated(rooms, lists, args, p, Now))

DoRoomJoined ==
    \E args \in JoinEvents :
        \E p \in Callers(args) :
            Handle("RoomJoined", RoomJoined(rooms, lists, args, p, Now))

DoRoomLeft ==
    \E args \in LeaveEvents :
        \E p \in Callers(args) :
            Handle("RoomLeft", RoomLeft(rooms, lists, args, p, Now))

\* currentPlayerId is undefined in RoomClosed (line 552)
DoRoomClosed ==
    \E args \in CloseEvents :
        Handle("RoomClosed", RoomClosed(rooms, lists, args, Undef, Now))

\* handlers.GetGameList, lines 610-612
DoGetGameList ==
    \E args \in RpcEvents :
        Handle("GetGameList", GetGameList(rooms, lists, args, args.UserId, Now))

Next ==
    \/ DoInitGameList
    \/ DoRoomCreated
    \/ DoRoomJoined
    \/ DoRoomLeft
    \/ DoRoomClosed
    \/ DoGetGameList

Spec == Init /\ [][Next]_vars

\* ------------------------------------------------------------ claims
\* the event passes checkWebhookArgs for this caller
Valid(args, p) == checkWebhookArgs(args, p).ResultCode = 0

Succeeded(out) == out.res.kind = "return" /\ out.res.ResultCode = 0

\* C1: in every reachable state of every persisted room record, NextActorNr
\* is strictly greater than every actor number that is a key of Actors.
C1_NextActorNrAboveActors ==
    /\ \A g \in Games :
          rooms[g].exists => \A n \in DOMAIN rooms[g].Actors : rooms[g].NextActorNr > n
    /\ \A p \in Players, g \in Games :
          "Actors" \in lists[p].entries[g].keys =>
              \A n \in DOMAIN lists[p].entries[g].Actors :
                  lists[p].entries[g].NextActorNr > n

\* C1 witness: a join has just added actor 2 to a room
C1_Witness ==
    /\ last.handler = "RoomJoined"
    /\ last.res.ResultCode = 0
    /\ \E g \in Games : rooms[g].exists /\ 2 \in DOMAIN rooms[g].Actors
                        /\ rooms[g].NextActorNr = 3

\* C2: for a room id, the persisted NextActorNr never decreases and stays
\* above every actor number that was present, over any handled event (stated
\* here for a room group that exists before and after the event).
C2_NextActorNrNeverDecreases ==
    [][\A g \in Games :
          (rooms[g].exists /\ rooms'[g].exists) =>
              /\ rooms'[g].NextActorNr >= rooms[g].NextActorNr
              /\ \A n \in DOMAIN rooms[g].Actors : n < rooms'[g].NextActorNr]_vars

\* C3: in every reachable state of every room record, the number of entries
\* of Actors does not exceed the MaxPlayers of the record's RoomOptions.
C3_RosterWithinMaxPlayers ==
    \A g \in Games :
        rooms[g].exists => ActorCountOf(rooms[g]) <= rooms[g].RoomOptions.MaxPlayers

\* C4: a Join whose ActorNr equals NextActorNr, handled while the roster size
\* equals the room's MaxPlayers, returns a nonzero result code and leaves
\* Actors and NextActorNr unchanged.
C4_JoinAtCapacityFails ==
    \A args \in JoinEvents :
        \A p \in Callers(args) :
            LET g == args.GameId
                out == RoomJoined(rooms, lists, args, p, Now)
            IN  (/\ rooms[g].exists
                 /\ args.ActorNr = rooms[g].NextActorNr
                 /\ ActorCountOf(rooms[g]) = rooms[g].RoomOptions.MaxPlayers)
                => /\ ~Succeeded(out)
                   /\ out.rooms[g].Actors = rooms[g].Actors
                   /\ out.rooms[g].NextActorNr = rooms[g].NextActorNr

\* C5 as stated: every Create event whose ActorNr is not 1 is answered with
\* result code 2, and no room record or index entry is created or changed.
C5_Original_CreateActorNrNot1 ==
    \A args \in CreateEvents :
        \A p \in Callers(args) :
            LET out == RoomCreated(rooms, lists, args, p, Now) IN
            args.ActorNr # 1 =>
                /\ out.res.kind = "return" /\ out.res.ResultCode = 2
                /\ out.rooms = rooms /\ out.lists = lists

\* the checks checkWebhookArgs makes before line 235 pass, and so does the
\* read of args.CreateOptions at line 422
PassesUpToActorNrCheck(args, p) ==
    /\ args.AppId /\ args.AppVersion /\ args.Region
    /\ args.GameId # Undef /\ args.ActorNr # NoNum
    /\ args.UserId # Undef /\ args.UserId = p
    /\ (args.Username \/ args.Nickname)
    /\ args.CreateOptions.present

\* C5 (amended): a Create event whose ActorNr is not 1 and whose other fields
\* pass the validator (common fields, UserId equal to the caller, a name,
\* CreateOptions) is answered with result code 2, and no room record or index
\* entry is created or changed.
C5_CreateActorNrNot1 ==
    \A args \in CreateEvents :
        \A p \in Callers(args) :
            LET out == RoomCreated(rooms, lists, args, p, Now) IN
            (args.ActorNr # 1 /\ PassesUpToActorNrCheck(args, p)) =>
                /\ out.res.kind = "return" /\ out.res.ResultCode = 2
                /\ out.rooms = rooms /\ out.lists = lists

\* C5 witness: such a Create was just rejected while a room and its
\* creator's index entry exist
C5_Witness ==
    /\ last.handler = "RoomCreated"
    /\ last.res.ResultCode = 2
    /\ last.res.Message = "ActorNr != 1 and Type == Create"
    /\ \E g \in Games : rooms[g].exists
                        /\ lists[rooms[g].Creation.UserId].entries[g].present

\* C6: a successful leave event whose IsInactive flag (the one the validator
\* requires) is true keeps the leaving actor in Actors with Inactive = true,
\* and the roster size is unchanged.
C6_RecoverableLeaveKeepsSlot ==
    \A args \in LeaveEvents :
        \A p \in Callers(args) :
            LET g == args.GameId
                out == RoomLeft(rooms, lists, args, p, Now)
            IN  (args.IsInactive = "true" /\ Succeeded(out)) =>
                    /\ args.ActorNr \in DOMAIN out.rooms[g].Actors
                    /\ out.rooms[g].Actors[args.ActorNr].Inactive
                    /\ ActorCountOf(out.rooms[g]) = ActorCountOf(rooms[g])

\* C7: a successful leave event that is not flagged recoverable (args.Inactive,
\* the flag line 531 reads, is not true) removes the leaving actor's number
\* from Actors of the persisted room record and removes the leaving player's
\* index entry for the room.
C7_FinalLeaveRemovesSlot ==
    \A args \in LeaveEvents :
        \A p \in Callers(args) :
            LET g == args.GameId
                out == RoomLeft(rooms, lists, args, p, Now)
            IN  (args.Inactive # "true" /\ Succeeded(out)) =>
                    /\ out.rooms[g].exists
                    /\ args.ActorNr \notin DOMAIN out.rooms[g].Actors
                    /\ ~out.lists[args.UserId].entries[g].present

\* C7 witness: the creator has just left for good: actor 1 is gone from the
\* roster, the leave is logged as not rejoinable, the index entry is gone
C7_Witness ==
    /\ last.handler = "RoomLeft"
    /\ last.res.ResultCode = 0
    /\ \E g \in Games :
          /\ rooms[g].exists
          /\ 1 \notin DOMAIN rooms[g].Actors
          /\ clock \in DOMAIN rooms[g].LeaveEvents
          /\ rooms[g].LeaveEvents[clock].ActorNr = 1
          /\ rooms[g].LeaveEvents[clock].CanRejoin # "true"
          /\ ~lists[rooms[g].Creation.UserId].entries[g].present

\* the events that may be handled between the two Creates of C8: none, or a Join
Between(out, j, t) ==
    IF j = NoArgs THEN out ELSE RoomJoined(out.rooms, out.lists, j, j.UserId, t)

\* C8: the same valid Create handled twice for a room id returns result code
\* 0 both times, and the room record after the second Create equals the room
\* record after the first, whatever was handled in between.
C8_CreateTwiceSameRecord ==
    \A args \in CreateEvents :
        \A j \in JoinEvents \cup {NoArgs} :
            LET g == args.GameId
                p == args.UserId
                first == RoomCreated(rooms, lists, args, p, Now)
                mid == Between(first, j, Now + 1)
                second == RoomCreated(mid.rooms, mid.lists, args, p, Now + 2)
            IN  (Valid(args, p) /\ Succeeded(first)) =>
                    /\ Succeeded(second)
                    /\ second.rooms[g] = first.rooms[g]

\* C9: after a successful Save with state payload S, a valid Load for the
\* same room id, by the creator or another player, returns result code 0
\* with State = S.
C9_SaveThenLoadReturnsState ==
    \A save \in {e \in CloseEvents : e.Type = "Save"} :
        \A load \in LoadEvents :
            LET p == load.UserId
                saved == RoomClosed(rooms, lists, save, Undef, Now)
                loaded == RoomCreated(saved.rooms, saved.lists, load, p, Now + 1)
            IN  (/\ Succeeded(saved)
                 /\ load.GameId = save.GameId
                 /\ Valid(load, p) /\ load.CreateOptions.present) =>
                    /\ Succeeded(loaded)
                    /\ loaded.res.State = save.State

\* C10: when a slot of a room is inactive after a leave, a Join with the
\* slot's ActorNr and UserId returns result code 0, sets the slot's Inactive
\* to false and leaves NextActorNr unchanged.
C10_RejoinReactivatesSlot ==
    \A args \in JoinEvents :
        LET g == args.GameId
            n == args.ActorNr
            out == RoomJoined(rooms, lists, args, args.UserId, Now)
        IN  (/\ rooms[g].exists
             /\ n \in DOMAIN rooms[g].Actors
             /\ rooms[g].Actors[n].Inactive
             /\ rooms[g].Actors[n].UserId = args.UserId) =>
                /\ Succeeded(out)
                /\ n \in DOMAIN out.rooms[g].Actors
                /\ ~out.rooms[g].Actors[n].Inactive
                /\ out.rooms[g].NextActorNr = rooms[g].NextActorNr

\* C11 as stated: a Close or Save event whose ActorCount differs from the
\* number of entries of the room's Actors is answered with the count-mismatch
\* error (result code 6), and the room record and every index are unchanged.
C11_Original_CountMismatch ==
    \A args \in CloseEvents :
        LET g == args.GameId
            out == RoomClosed(rooms, lists, args, Undef, Now)
        IN  (rooms[g].exists /\ args.ActorCount # ActorCountOf(rooms[g])) =>
                /\ out.res.kind = "return" /\ out.res.ResultCode = 6
                /\ out.rooms = rooms /\ out.lists = lists

\* C11 (amended): a Close or Save event that passes the validator (a Close
\* carries ActorCount 0, a Save a positive ActorCount and a State) and whose
\* ActorCount differs from the number of entries of the room's Actors is
\* answered with result code 6, and the room record and every index are
\* unchanged.
C11_CountMismatch ==
    \A args \in CloseEvents :
        LET g == args.GameId
            out == RoomClosed(rooms, lists, args, Undef, Now)
        IN  (/\ rooms[g].exists
             /\ Valid(args, Undef)
             /\ args.ActorCount # ActorCountOf(rooms[g])) =>
                /\ out.res.kind = "return" /\ out.res.ResultCode = 6
                /\ out.rooms = rooms /\ out.lists = lists

\* C11 witness: a Save or Close was just rejected with code 6 on a room that
\* holds two actors
C11_Witness ==
    /\ last.handler = "RoomClosed"
    /\ last.res.ResultCode = 6
    /\ \E g \in Games : rooms[g].exists /\ ActorCountOf(rooms[g]) = 2

\* C12: for every event envelope, well-formed or not, and every store state,
\* each of the webhook handlers RoomCreated, RoomJoined, RoomLeft and
\* RoomClosed returns a response; no exception leaves a handler.
C12_NoExceptionLeavesHandler ==
    /\ \A args \in CreateEvents \cup LoadEvents :
          \A p \in Callers(args) :
              RoomCreated(rooms, lists, args, p, Now).res.kind = "return"
    /\ \A args \in JoinEvents :
          \A p \in Callers(args) :
              RoomJoined(rooms, lists, args, p, Now).res.kind = "return"
    /\ \A args \in LeaveEvents :
          \A p \in Callers(args) :
              RoomLeft(rooms, lists, args, p, Now).res.kind = "return"
    /\ \A args \in CloseEvents :
          RoomClosed(rooms, lists, args, Undef, Now).res.kind = "return"

\* the room record and the creator's index entry a fresh Create is to leave
CreatedAsSpecified(out, args) ==
    LET g == args.GameId
        r == out.rooms[g]
    IN  /\ Succeeded(out)
        /\ r.exists
        /\ r.NextActorNr = 2
        /\ r.Actors = (1 :> [UserId |-> args.UserId, Inactive |-> FALSE])
        /\ r.RoomOptions = args.CreateOptions
        /\ r.Creation.UserId = args.UserId
        /\ out.lists[args.UserId].entries[g].present

\* C13: a valid Create for a room id with no record returns result
\* code 0, persists NextActorNr = 2, Actors = {1: creator, active}, the
\* supplied options and a Creation naming the creator, and the creator's
\* index gains an entry for the room.
C13_CreatePersistsRecord ==
    \A args \in CreateEvents :
        LET p == args.UserId
            out == RoomCreated(rooms, lists, args, p, Now)
        IN  (Valid(args, p) /\ ~rooms[args.GameId].exists) => CreatedAsSpecified(out, args)

\* C13, second reading: the same holds for a creator whose game list has been
\* created (InitGameList) before the Create.
C13_CreateWithGameList ==
    \A args \in CreateEvents :
        LET p == args.UserId
            out == RoomCreated(rooms, lists, args, p, Now)
        IN  (Valid(args, p) /\ ~rooms[args.GameId].exists /\ lists[p].exists)
                => CreatedAsSpecified(out, args)

\* a Create has just made a fresh room, with its index entry
C13_FreshRoomReached ==
    /\ last.handler = "RoomCreated"
    /\ last.res.ResultCode = 0
    /\ \E g \in Games :
          /\ rooms[g].exists
          /\ rooms[g].Creation.Timestamp = clock
          /\ DOMAIN rooms[g].JoinEvents = {} /\ DOMAIN rooms[g].LeaveEvents = {}
          /\ rooms[g].NextActorNr = 2
          /\ lists[rooms[g].Creation.UserId].entries[g].present
          /\ lists[rooms[g].Creation.UserId].entries[g].Creation.Timestamp = clock

\* C14: a valid Join whose ActorNr equals the room's NextActorNr, on a room
\* whose roster is below the stored MaxPlayers, returns result code 0, adds
\* {UserId = joining user, Inactive = false} at that actor number, leaves the
\* other roster entries unchanged and increments NextActorNr by exactly 1.
C14_NewJoinBelowCapacity ==
    \A args \in JoinEvents :
        LET g == args.GameId
            p == args.UserId
            out == RoomJoined(rooms, lists, args, p, Now)
        IN  (/\ Valid(args, p)
             /\ rooms[g].exists
             /\ args.ActorNr = rooms[g].NextActorNr
             /\ ActorCountOf(rooms[g]) < rooms[g].RoomOptions.MaxPlayers) =>
                /\ Succeeded(out)
                /\ out.rooms[g].Actors =
                       (args.ActorNr :> [UserId |-> args.UserId, Inactive |-> FALSE])
                           @@ rooms[g].Actors
                /\ out.rooms[g].NextActorNr = rooms[g].NextActorNr + 1

\* C14 with the envelope's RoomOptions present and its MaxPlayers above the
\* roster size, and the joining player's game list created: then the join
\* is carried out as specified
C14_NewJoinEnvelopeAllows ==
    \A args \in JoinEvents :
        LET g == args.GameId
            p == args.UserId
            out == RoomJoined(rooms, lists, args, p, Now)
        IN  (/\ Valid(args, p)
             /\ rooms[g].exists
             /\ args.ActorNr = rooms[g].NextActorNr
             /\ args.RoomOptions.present
             /\ ActorCountOf(rooms[g]) < args.RoomOptions.MaxPlayers
             /\ lists[p].exists) =>
                /\ Succeeded(out)
                /\ out.rooms[g].Actors =
                       (args.ActorNr :> [UserId |-> args.UserId, Inactive |-> FALSE])
                           @@ rooms[g].Actors
                /\ out.rooms[g].NextActorNr = rooms[g].NextActorNr + 1

\* the events of a type other than Close and Save
ActorEvents == CreateEvents \cup LoadEvents \cup JoinEvents \cup LeaveEvents

\* the common required fields, ActorNr and UserId are present
HasCommonFields(args) ==
    /\ args.AppId /\ args.AppVersion /\ args.Region
    /\ args.GameId # Undef /\ args.Type # Undef
    /\ args.ActorNr # NoNum /\ args.UserId # Undef

\* the handler answers with result code 3 and writes nothing
RejectedAsAuthMismatch(out) ==
    /\ out.res.kind = "return" /\ out.res.ResultCode = 3
    /\ out.rooms = rooms /\ out.lists = lists

\* C15: every event of a type other than Close and Save whose UserId differs
\* from the authenticated caller, and whose common fields, ActorNr and UserId
\* are present, is answered with result code 3 by whichever handler receives
\* it, and changes no room record and no index.
C15_AuthMismatchRejected ==
    \A args \in ActorEvents :
        \A p \in (Players \cup {Undef}) \ {args.UserId} :
            HasCommonFields(args) =>
                /\ RejectedAsAuthMismatch(RoomCreated(rooms, lists, args, p, Now))
                /\ RejectedAsAuthMismatch(RoomJoined(rooms, lists, args, p, Now))
                /\ RejectedAsAuthMismatch(RoomLeft(rooms, lists, args, p, Now))
                /\ RejectedAsAuthMismatch(RoomClosed(rooms, lists, args, p, Now))

\* C15 for the envelopes that get past line 422 of RoomCreated (those that
\* carry CreateOptions), and for the other three handlers
C15_AuthMismatchPastLine422 ==
    \A args \in ActorEvents :
        \A p \in (Players \cup {Undef}) \ {args.UserId} :
            HasCommonFields(args) =>
                /\ args.CreateOptions.present =>
                       RejectedAsAuthMismatch(RoomCreated(rooms, lists, args, p, Now))
                /\ RejectedAsAuthMismatch(RoomJoined(rooms, lists, args, p, Now))
                /\ RejectedAsAuthMismatch(RoomLeft(rooms, lists, args, p, Now))
                /\ RejectedAsAuthMismatch(RoomClosed(rooms, lists, args, p, Now))

\* a user id enters a roster only by an event sent as that user: every user
\* id a handler adds to Actors is the id of the caller
C15_RosterHoldsAuthenticatedIds ==
    \A args \in ActorEvents :
        \A p \in Players :
            \A g \in Games :
                LET ids(r) == {r.Actors[n].UserId : n \in DOMAIN r.Actors} IN
                /\ ids(RoomCreated(rooms, lists, args, p, Now).rooms[g]) \ ids(rooms[g])
                       \subseteq {p}
                /\ ids(RoomJoined(rooms, lists, args, p, Now).rooms[g]) \ ids(rooms[g])
                       \subseteq {p}
                /\ ids(RoomLeft(rooms, lists, args, p, Now).rooms[g]) \ ids(rooms[g])
                       \subseteq {p}

\* C16: once the Creation field of a room record is written, no handled event
\* changes it for as long as the record exists.
C16_CreationWriteOnce ==
    [][\A g \in Games :
          (rooms[g].exists /\ rooms'[g].exists) => rooms'[g].Creation = rooms[g].Creation]_vars

\* no record is persisted for the room id: no room group, and no index entry
\* of any player
NoRecord(g) ==
    /\ ~rooms[g].exists
    /\ \A q \in Players : ~lists[q].entries[g].present

\* C17: a valid Load with CreateIfNotExists = false for a room id that has no
\* persisted record is answered with result code 5 (NotFound) and creates no
\* room record and no index entry.
C17_LoadAbsentNotFound ==
    \A load \in LoadEvents :
        LET p == load.UserId
            out == RoomCreated(rooms, lists, load, p, Now)
        IN  (/\ Valid(load, p) /\ load.CreateOptions.present
             /\ load.CreateIfNotExists = "false"
             /\ NoRecord(load.GameId)) =>
                /\ out.res.kind = "return" /\ out.res.ResultCode = 5
                /\ out.rooms = rooms /\ out.lists = lists

\* C18: a valid Load with CreateIfNotExists = true for a room id that has no
\* persisted record returns result code 0 with an empty State, and performs
\* the Create transition: a room record with NextActorNr = 2 and the single
\* active actor 1.
C18_LoadAbsentBootstraps ==
    \A load \in LoadEvents :
        LET g == load.GameId
            p == load.UserId
            out == RoomCreated(rooms, lists, load, p, Now)
        IN  (/\ Valid(load, p) /\ load.CreateOptions.present
             /\ load.CreateIfNotExists = "true"
             /\ NoRecord(g) /\ lists[p].exists) =>
                /\ Succeeded(out)
                /\ out.res.State = ""
                /\ out.rooms[g].exists
                /\ out.rooms[g].NextActorNr = 2
                /\ out.rooms[g].Actors = (1 :> [UserId |-> p, Inactive |-> FALSE])

\* ------------------------------------------------------------ concurrent delivery
\* Two invocations for the same room id run at once.  A handler reads the
\* room record (getSharedGroupData, lines 469 and 516), computes on its copy,
\* and writes with updateSharedGroupData / updateSharedGroupEntry; each store
\* call is one step, and nothing compares the stored record with the one
\* that was read.

\* updateSharedGroupData with the store merging the rosters
updateSharedGroupData_MergeActors(cur, data) ==
    [data EXCEPT
        !.Actors = data.Actors @@ cur.Actors,
        !.JoinEvents = IF DOMAIN data.JoinEvents = {} THEN cur.JoinEvents ELSE @,
        !.LeaveEvents = IF DOMAIN data.LeaveEvents = {} THEN cur.LeaveEvents ELSE @]

\* updateSharedGroupData(args.GameId, data), lines 74-87, on the stored record
\* cur: every key of data replaces the stored value, the keys data does not
\* hold (an event log that did not exist when data was read) keep theirs
updateSharedGroupData(cur, data) ==
    [data EXCEPT
        !.JoinEvents = IF DOMAIN data.JoinEvents = {} THEN cur.JoinEvents ELSE @,
        !.LeaveEvents = IF DOMAIN data.LeaveEvents = {} THEN cur.LeaveEvents ELSE @]

\* the envelopes of the concurrent invocations: joins and leave requests,
\* each sent by its own user
RaceEvents ==
    {e \in JoinEvents : e.RoomOptions = Options(2, 0, FALSE)}
    \cup {e \in LeaveEvents : /\ e.Type = "LeaveRequest"
                              /\ <<e.IsInactive, e.Inactive>>
                                     \in {<<"false", "undefined">>, <<"true", "true">>}}

\* both players have their game list, and one of them has created the room
InitRace ==
    \E c \in {e \in CreateEvents : /\ Valid(e, e.UserId) /\ e.Nickname
                                   /\ e.CreateOptions = Options(2, 0, FALSE)} :
        LET r0 == [g \in Games |-> NoRoom]
            l0 == [p \in Players |-> [NoList EXCEPT !.exists = TRUE]]
            out == RoomCreated(r0, l0, c, c.UserId, 1)
        IN  /\ rooms = out.rooms
            /\ lists = out.lists
            /\ clock = 1
            /\ last = [handler |-> "RoomCreated", res |-> out.res, audit |-> out.audit]
            /\ procs = [i \in Procs |-> Idle]

\* the invocation ends: its response is returned
Finish(i, p, res, audit) ==
    /\ procs' = [procs EXCEPT ![i] = [p EXCEPT !.pc = "done", !.res = res]]
    /\ last' = [handler |-> p.handler, res |-> res, audit |-> audit]

\* the first store call of a handler, up to its first write: the validator,
\* the read of the room record and the roster computation on the copy
StartJoin(i, e, t) ==
    LET chk == checkWebhookArgs(e, e.UserId)
        d == rooms[e.GameId]
        r == JoinRoster(d, e)
        p == [Idle EXCEPT !.handler = "RoomJoined", !.args = e, !.read = d]
    IN  IF chk.ResultCode # 0 THEN Finish(i, p, Caught(chk), 1)
        ELSE IF ~d.exists THEN Finish(i, p, Unexpected("PlayFabError"), 0)
        ELSE IF r.exc = "TypeError" THEN Finish(i, p, Unexpected("TypeError"), 0)
        ELSE IF r.exc = "PhotonException" THEN Finish(i, p, Caught(r.err), 1)
        ELSE /\ procs' = [procs EXCEPT ![i] =
                            [p EXCEPT !.pc = "room", !.data = JoinData(d, e, r, t)]]
             /\ last' = last

StartLeave(i, e, t) ==
    LET chk == checkWebhookArgs(e, e.UserId)
        d == rooms[e.GameId]
        c == LeaveCheck(d, e)
        p == [Idle EXCEPT !.handler = "RoomLeft", !.args = e, !.read = d]
    IN  IF chk.ResultCode # 0 THEN Finish(i, p, Caught(chk), 1)
        ELSE IF ~d.exists THEN Finish(i, p, Unexpected("PlayFabError"), 0)
        ELSE IF c.ResultCode # 0 THEN Finish(i, p, Caught(c), 1)
        ELSE /\ procs' = [procs EXCEPT ![i] =
                            [p EXCEPT !.pc = IF e.Inactive = "true" THEN "room" ELSE "index",
                                      !.data = LeaveData(d, e, t)]]
             /\ last' = last

Start(i) ==
    /\ procs[i].pc = "idle"
    /\ clock < MaxClock
    /\ clock' = Now
    /\ UNCHANGED <<rooms, lists>>
    /\ \E e \in RaceEvents :
          IF e.Type = "Join" THEN StartJoin(i, e, Now) ELSE StartLeave(i, e, Now)

\* updateSharedGroupData(args.GameId, data): line 497 of RoomJoined (the index
\* write of line 498 follows), line 541 of RoomLeft (the handler returns)
WriteRoom(i) ==
    LET p == procs[i]
        g == p.args.GameId
        q == [p EXCEPT !.stale = (rooms[g] # p.read)]
    IN  /\ p.pc = "room"
        /\ rooms' = [rooms EXCEPT ![g] = updateSharedGroupData(rooms[g], p.data)]
        /\ UNCHANGED <<lists, clock>>
        /\ IF p.handler = "RoomJoined"
           THEN procs' = [procs EXCEPT ![i] = [q EXCEPT !.pc = "index"]] /\ last' = last
           ELSE Finish(i, q, Return(0, "OK"), 0)

\* the index call: updateSharedGroupEntry at line 498 of RoomJoined (the
\* handler returns), deleteSharedGroupEntry at line 535 of RoomLeft (the room
\* write of line 541 follows)
WriteIndex(i) ==
    LET p == procs[i]
        g == p.args.GameId
        u == p.args.UserId
    IN  /\ p.pc = "index"
        /\ UNCHANGED <<rooms, clock>>
        /\ IF ~lists[u].exists
           THEN lists' = lists /\ Finish(i, p, Unexpected("PlayFabError"), 0)
           ELSE IF p.handler = "RoomJoined"
           THEN /\ lists' = updateSharedGroupEntry(lists, u, g,
                                                   JoinedEntry(p.data, p.args.ActorNr))
                /\ Finish(i, p, Return(0, "OK"), 0)
           ELSE /\ lists' = deleteSharedGroupEntry(lists, u, g)
                /\ procs' = [procs EXCEPT ![i] = [p EXCEPT !.pc = "room"]]
                /\ last' = last

NextRace ==
    \/ \E i \in Procs : Start(i)
    \/ \E i \in Procs : WriteRoom(i)
    \/ \E i \in Procs : WriteIndex(i)

SpecRace == InitRace /\ [][NextRace]_vars

\* invocation i has returned result code 0
Done0(i) == procs[i].pc = "done" /\ procs[i].res.ResultCode = 0

\* C19: two events for the same room id handled concurrently, both answered
\* with result code 0: when the second writer wrote over a record that had
\* changed since it read it, the persisted roster is the one the second
\* writer computed from its own read, and nothing of the first writer's.
C19_SecondWriterWins ==
    \A a \in Procs, b \in Procs :
        (a # b /\ Done0(a) /\ Done0(b) /\ procs[b].stale) =>
            LET g == procs[b].args.GameId IN
            /\ rooms[g].Actors = procs[b].data.Actors
            /\ rooms[g].NextActorNr = procs[b].data.NextActorNr

\* C19 witness: a join and another event read the same record and both
\* returned 0; the join wrote first, and the actor it added is not in the
\* persisted roster
C19_Witness ==
    \E a \in Procs, b \in Procs :
        LET g == procs[a].args.GameId
            n == procs[a].args.ActorNr
        IN  /\ a # b /\ Done0(a) /\ Done0(b)
            /\ procs[a].handler = "RoomJoined"
            /\ procs[b].args.GameId = g
            /\ procs[a].read = procs[b].read
            /\ ~procs[a].stale /\ procs[b].stale
            /\ n \in DOMAIN procs[a].data.Actors
            /\ \/ n \notin DOMAIN rooms[g].Actors
               \/ rooms[g].Actors[n].UserId # procs[a].args.UserId

\* every Join, leave-family, Save and Close event for room id g is answered
\* with a nonzero result code and leaves the store rm, ls as it is
AllRejected(rm, ls, g, t) ==
    /\ \A e \in {x \in JoinEvents : x.GameId = g} :
          \A p \in Callers(e) :
              LET out == RoomJoined(rm, ls, e, p, t) IN
              /\ out.res.kind = "return" /\ out.res.ResultCode # 0
              /\ out.rooms = rm /\ out.lists = ls
    /\ \A e \in {x \in LeaveEvents : x.GameId = g} :
          \A p \in Callers(e) :
              LET out == RoomLeft(rm, ls, e, p, t) IN
              /\ out.res.kind = "return" /\ out.res.ResultCode # 0
              /\ out.rooms = rm /\ out.lists = ls
    /\ \A e \in {x \in CloseEvents : x.GameId = g} :
          LET out == RoomClosed(rm, ls, e, Undef, t) IN
          /\ out.res.kind = "return" /\ out.res.ResultCode # 0
          /\ out.rooms = rm /\ out.lists = ls

\* C20: after a successful Close of a room id, every Join, leave-family, Save
\* or Close event for that id returns a nonzero result code and changes no
\* state; and so it stays for as long as no Create makes a record for the id
\* again (an event that is refused leaves the room absent).
C20_ClosedRoomRefusesEvents ==
    /\ \A close \in {x \in CloseEvents : x.Type = "Close"} :
          LET closed == RoomClosed(rooms, lists, close, Undef, Now) IN
          Succeeded(closed) =>
              AllRejected(closed.rooms, closed.lists, close.GameId, Now + 1)
    /\ \A g \in Games : ~rooms[g].exists => AllRejected(rooms, lists, g, Now)

\* C20 witness: a Close has just succeeded: the room group is gone and no
\* player's index holds an entry for the room
C20_Witness ==
    /\ last.handler = "RoomClosed"
    /\ last.res.ResultCode = 0
    /\ \E g \in Games : ~rooms[g].exists /\ \A p \in Players : ~lists[p].entries[g].present

\* C21: in a room that enforces a player TTL, a Join whose ActorNr is below
\* NextActorNr and whose slot is active (Inactive = false) is answered with
\* result code 2 (duplicate join), and the room record is unchanged.
C21_DuplicateJoinRejected ==
    \A args \in JoinEvents :
        LET g == args.GameId
            p == args.UserId
            out == RoomJoined(rooms, lists, args, p, Now)
        IN  (/\ Valid(args, p)
             /\ rooms[g].exists
             /\ rooms[g].RoomOptions.PlayerTTL # 0
             /\ args.ActorNr < rooms[g].NextActorNr
             /\ args.ActorNr \in DOMAIN rooms[g].Actors
             /\ ~rooms[g].Actors[args.ActorNr].Inactive) =>
                /\ out.res.kind = "return" /\ out.res.ResultCode = 2
                /\ out.rooms[g] = rooms[g]

\* with strict rejoin validation enabled, a rejoin by another user id than the
\* slot's is refused and the room record is unchanged
StrictRejoinRefused ==
    \A args \in JoinEvents :
        LET g == args.GameId
            out == RoomJoined(rooms, lists, args, args.UserId, Now)
        IN  (/\ rooms[g].exists
             /\ rooms[g].RoomOptions.PlayerTTL # 0
             /\ rooms[g].RoomOptions.CheckUserOnJoin
             /\ args.ActorNr < rooms[g].NextActorNr
             /\ args.ActorNr \in DOMAIN rooms[g].Actors
             /\ rooms[g].Actors[args.ActorNr].UserId # args.UserId) =>
                /\ ~Succeeded(out)
                /\ out.rooms[g] = rooms[g]

\* C22: while an actor number remains a key of Actors, the UserId recorded
\* for it changes only by a successful Join (a rejoin) in a room whose
\* CheckUserOnJoin is not enabled; with CheckUserOnJoin enabled a rejoin by a
\* different user id is refused and the slot is unchanged.
C22_SlotKeepsUserId ==
    [][/\ StrictRejoinRefused
       /\ \A g \in Games :
             (rooms[g].exists /\ rooms'[g].exists) =>
                 \A n \in DOMAIN rooms[g].Actors \cap DOMAIN rooms'[g].Actors :
                     \/ rooms'[g].Actors[n].UserId = rooms[g].Actors[n].UserId
                     \/ /\ last'.handler = "RoomJoined"
                        /\ last'.res.ResultCode = 0
                        /\ ~rooms[g].RoomOptions.CheckUserOnJoin]_vars

\* the refusal of a strict rejoin by another user, on its own
C22_StrictRejoinRefused == StrictRejoinRefused

\* C23: a valid Join whose ActorNr is neither a rejoin of an assigned slot
\* (ActorNr < NextActorNr in a room with a player TTL) nor NextActorNr itself
\* (so ActorNr > NextActorNr, or ActorNr < NextActorNr with PlayerTTL = 0) is
\* answered with result code 2, and no room record or index changes.
C23_OutOfSequenceJoinRejected ==
    \A args \in JoinEvents :
        LET g == args.GameId
            p == args.UserId
            out == RoomJoined(rooms, lists, args, p, Now)
        IN  (/\ Valid(args, p)
             /\ rooms[g].exists
             /\ \/ args.ActorNr > rooms[g].NextActorNr
                \/ args.ActorNr < rooms[g].NextActorNr /\ rooms[g].RoomOptions.PlayerTTL = 0) =>
                /\ out.res.kind = "return" /\ out.res.ResultCode = 2
                /\ out.rooms = rooms /\ out.lists = lists

\* C23 witness: a Join has just been refused as out of sequence by a room
\* without player TTL that holds two actors
C23_Witness ==
    /\ last.handler = "RoomJoined"
    /\ last.res.ResultCode = 2
    /\ last.res.Message = "Unexpected ActorNr"
    /\ \E g \in Games : /\ rooms[g].exists
                        /\ rooms[g].RoomOptions.PlayerTTL = 0
                        /\ rooms[g].NextActorNr = 3

\* C24: a valid leave-family event whose ActorNr is not a key of the room's
\* Actors, or whose UserId differs from the UserId recorded for that actor
\* number, is answered with result code 2, and the room record and all
\* indexes are unchanged.
C24_LeaveOfStrangerRejected ==
    \A args \in LeaveEvents :
        LET g == args.GameId
            p == args.UserId
            out == RoomLeft(rooms, lists, args, p, Now)
        IN  (/\ Valid(args, p)
             /\ rooms[g].exists
             /\ \/ args.ActorNr \notin DOMAIN rooms[g].Actors
                \/ rooms[g].Actors[args.ActorNr].UserId # args.UserId) =>
                /\ out.res.kind = "return" /\ out.res.ResultCode = 2
                /\ out.rooms = rooms /\ out.lists = lists

\* C24 witness: a leave sent by another user than the slot's has just been
\* refused
C24_Witness ==
    /\ last.handler = "RoomLeft"
    /\ last.res.ResultCode = 2
    /\ last.res.Message = "Leaving UserId is different from joined"
    /\ \E g \in Games : rooms[g].exists /\ DOMAIN rooms[g].Actors # {}

\* C25: a valid leave event for a slot that is already inactive is accepted
\* (result code 0) when its type is PlayerTtlTimedOut, and is refused for
\* every other leave type.
C25_TtlTimeoutOfInactiveSlot ==
    \A args \in LeaveEvents :
        LET g == args.GameId
            p == args.UserId
            out == RoomLeft(rooms, lists, args, p, Now)
        IN  (/\ Valid(args, p)
             /\ rooms[g].exists /\ lists[p].exists
             /\ args.ActorNr \in DOMAIN rooms[g].Actors
             /\ rooms[g].Actors[args.ActorNr].Inactive
             /\ rooms[g].Actors[args.ActorNr].UserId = args.UserId) =>
                IF args.Type = "PlayerTtlTimedOut" THEN Succeeded(out) ELSE ~Succeeded(out)

\* the refusal half of C25: every leave for an inactive slot is refused with
\* result code 2, whatever its type
C25_InactiveSlotLeaveRefused ==
    \A args \in LeaveEvents :
        LET g == args.GameId
            p == args.UserId
            out == RoomLeft(rooms, lists, args, p, Now)
        IN  (/\ Valid(args, p)
             /\ rooms[g].exists
             /\ args.ActorNr \in DOMAIN rooms[g].Actors
             /\ rooms[g].Actors[args.ActorNr].Inactive) =>
                 out.res.ResultCode = 2 /\ out.rooms = rooms /\ out.lists = lists

StateOf(e) == IF e.present /\ "State" \in e.keys THEN e.State ELSE Undef

\* C27: the State held in a room's persisted data changes only through a
\* successful Save: no Create, Load, Join, leave-family or Close event,
\* successful or failed, changes or removes it.  (Only index entries hold a
\* State; the room's shared group never does.)
C27_StateChangesOnlyBySave ==
    [][\A p \in Players, g \in Games :
          StateOf(lists'[p].entries[g]) # StateOf(lists[p].entries[g]) =>
              /\ last'.handler = "RoomClosed"
              /\ last'.res.ResultCode = 0
              /\ StateOf(lists'[p].entries[g]) # Undef
              /\ clock' \in DOMAIN lists'[p].entries[g].SaveEvents]_vars

\* every entry of the log old is in the log new, unaltered
LogKept(old, new) == \A t \in DOMAIN old : t \in DOMAIN new /\ new[t] = old[t]

\* the logs of the room's shared group over one step: entries are kept, a
\* successful Join adds one join entry, a successful leave one leave entry
RoomGroupLogsAppendOnly ==
    \A g \in Games :
        (rooms[g].exists /\ rooms'[g].exists) =>
            /\ LogKept(rooms[g].JoinEvents, rooms'[g].JoinEvents)
            /\ LogKept(rooms[g].LeaveEvents, rooms'[g].LeaveEvents)
            /\ (last'.handler = "RoomJoined" /\ last'.res.ResultCode = 0) =>
                   Cardinality(DOMAIN rooms'[g].JoinEvents)
                       = Cardinality(DOMAIN rooms[g].JoinEvents) + 1
            /\ (last'.handler = "RoomLeft" /\ last'.res.ResultCode = 0) =>
                   Cardinality(DOMAIN rooms'[g].LeaveEvents)
                       = Cardinality(DOMAIN rooms[g].LeaveEvents) + 1

\* the logs of the saved record (the index entry a Save wrote) over one step
SavedLogsAppendOnly ==
    \A p \in Players, g \in Games :
        (lists[p].entries[g].present /\ lists'[p].entries[g].present) =>
            /\ LogKept(lists[p].entries[g].JoinEvents, lists'[p].entries[g].JoinEvents)
            /\ LogKept(lists[p].entries[g].LeaveEvents, lists'[p].entries[g].LeaveEvents)
            /\ LogKept(lists[p].entries[g].SaveEvents, lists'[p].entries[g].SaveEvents)

\* C28: the JoinEvents, LeaveEvents, LoadEvents and SaveEvents logs of a room
\* record are append-only: a successful Join, leave or Save adds one entry to
\* its log, and no event removes or alters an entry already present while
\* the record exists, be it the room's shared group or the record a Save
\* left in the creator's index.
C28_LogsAppendOnly == [][RoomGroupLogsAppendOnly /\ SavedLogsAppendOnly]_vars

\* C28 for the room's shared group alone
C28_RoomGroupLogsAppendOnly == [][RoomGroupLogsAppendOnly]_vars

\* the user ids of a roster
UserIdsOf(actors) == {actors[n].UserId : n \in DOMAIN actors}

\* the index entry is the record a Save left
IsSavedRecord(e) == e.present /\ "State" \in e.keys

\* player p is tied to room g: p holds the saved record of a room p created,
\* or the room's shared group exists and p created it or is in its roster,
\* or the room was saved and p is in the saved roster
Associated(p, g) ==
    \/ IsSavedRecord(lists[p].entries[g]) /\ lists[p].entries[g].Creation.UserId = p
    \/ /\ rooms[g].exists
       /\ p = rooms[g].Creation.UserId \/ p \in UserIdsOf(rooms[g].Actors)
    \/ /\ ~rooms[g].exists
       /\ \E q \in Players : /\ IsSavedRecord(lists[q].entries[g])
                             /\ p \in UserIdsOf(lists[q].entries[g].Actors)

\* C29: in every reachable state, a player whose game-list index holds an
\* entry for a room is the creator of that room or occupies a slot of its
\* roster.
C29_IndexEntryMeansAssociated ==
    \A p \in Players, g \in Games : lists[p].entries[g].present => Associated(p, g)

\* the outcomes the webhook handlers would produce in the current state, one
\* per event and caller
WebhookOutcomes ==
    {RoomCreated(rooms, lists, a, p, Now) : a \in CreateEvents \cup LoadEvents, p \in Players}
        \cup {RoomJoined(rooms, lists, a, p, Now) : a \in JoinEvents, p \in Players}
        \cup {RoomLeft(rooms, lists, a, p, Now) : a \in LeaveEvents, p \in Players}
        \cup {RoomClosed(rooms, lists, a, Undef, Now) : a \in CloseEvents}

\* the response carries the code of a PhotonException (codes 1, 2, 3, 5, 6)
IsValidationFailure(res) == res.kind = "return" /\ res.ResultCode > 0

\* C30: every validation failure a handler returns was written to the audit
\* trail exactly once before the handler returned, and the invocation left
\* every room record and every per-player index as it found them.
C30_ValidationFailureAudited ==
    /\ IsValidationFailure(last.res) => last.audit = 1
    /\ \A out \in WebhookOutcomes :
           IsValidationFailure(out.res) =>
               /\ out.audit = 1
               /\ out.rooms = rooms
               /\ out.lists = lists

\* a handler has returned a validation failure for an event on a live room
C30_Witness ==
    /\ IsValidationFailure(last.res)
    /\ last.audit = 1
    /\ last.handler \in {"RoomJoined", "RoomLeft", "RoomClosed"}
    /\ \E g \in Games : rooms[g].exists

\* ------------------------------------------------------------ validator alone
\* leave-family envelopes of every type of LeaveReason: the reason code of
\* the type or none; the inactive flag supplied or not
LeaveFamilyEvents ==
    UNION {{[Base(g, t) EXCEPT !.ActorNr = 1, !.UserId = u, !.Reason = r, !.IsInactive = f] :
               g \in Games, u \in {"U1"},
               r \in {LeaveReason[t], Undef}, f \in {"true", "undefined"}} :
           t \in LeaveTypes}

\* checkWebhookArgs(args, timestamp) applied to one envelope, as the first
\* statement of a handler's try block does; the PhotonException it throws is
\* what the handler's catch returns
Validate(i) ==
    \E e \in LeaveFamilyEvents :
        LET chk == checkWebhookArgs(e, e.UserId)
        IN  /\ procs' = [procs EXCEPT ![i] =
                            [Idle EXCEPT !.pc = "done", !.handler = "checkWebhookArgs",
                                         !.args = e, !.res = Caught(chk)]]
            /\ last' = [handler |-> "checkWebhookArgs", res |-> Caught(chk),
                        audit |-> IF chk.ResultCode # 0 THEN 1 ELSE 0]
            /\ UNCHANGED <<rooms, lists, clock>>

NextValidate == \E i \in Procs : Validate(i)

SpecValidate == Init /\ [][NextValidate]_vars

\* the envelope names a leave type and supplies the inactive flag and the
\* reason code of that type
FullLeave(e) ==
    /\ e.Type \in LeaveTypes
    /\ e.IsInactive # "undefined"
    /\ e.Reason = LeaveReason[e.Type]

\* the reason codes the validator rejects although everything is supplied
RejectedCodes ==
    {e.Reason : e \in {x \in LeaveFamilyEvents :
                          FullLeave(x) /\ checkWebhookArgs(x, x.UserId).ResultCode # 0}}

\* C31 as stated: the reason code for which the validator rejects a leave
\* envelope with type, inactive flag and matching reason code all supplied is
\* one of exactly three.
C31_Original_ThreeCodesRejected ==
    (\E i \in Procs : /\ procs[i].pc = "done" /\ FullLeave(procs[i].args)
                      /\ procs[i].res.ResultCode # 0)
        => Cardinality(RejectedCodes) = 3

\* C31: exactly four reason codes (1, 100, 103 and 105) are rejected by the
\* validator when type, inactive flag and matching reason code are all
\* supplied, each with code 2; every other leave type with its matching
\* reason code passes validation.
C31_FourCodesRejected ==
    /\ RejectedCodes = {"1", "100", "103", "105"}
    /\ \A i \in Procs :
           (procs[i].pc = "done" /\ FullLeave(procs[i].args)) =>
               IF procs[i].args.Reason \in {"1", "100", "103", "105"}
               THEN procs[i].res.ResultCode = 2
               ELSE procs[i].res.ResultCode = 0

\* C31 witness: the validator has rejected one fully supplied leave envelope
\* for its reason code and has passed another
C31_Witness ==
    /\ procs[1].pc = "done" /\ FullLeave(procs[1].args)
    /\ procs[1].args.Type = "PluginFailedJoin" /\ procs[1].res.ResultCode = 2
    /\ procs[2].pc = "done" /\ FullLeave(procs[2].args)
    /\ procs[2].args.Type = "PluginRequest" /\ procs[2].res.ResultCode = 0

\* server.CreateSharedGroup raises for an id that is taken
\* (InvalidSharedGroupId, "game already exists", lines 387-389)
createSharedGroup_Raises(rm, g) == rm[g].exists

\* the generic result of the catch blocks: ResultCode -1, e.name + ': ' + e.message
IsUnexpected(res) == res.kind = "return" /\ res.ResultCode = -1

C32_FailedReadReturnsUnexpected ==
    \A out \in {RoomJoined(rooms, lists, e, p, Now) :
                    e \in {x \in JoinEvents : ~rooms[x.GameId].exists}, p \in Players}
               \cup {RoomLeft(rooms, lists, e, p, Now) :
                    e \in {x \in LeaveEvents : ~rooms[x.GameId].exists}, p \in Players}
               \cup {RoomClosed(rooms, lists, e, Undef, Now) :
                    e \in {x \in CloseEvents : ~rooms[x.GameId].exists}} :
        out.res.ResultCode # 0 /\ (~IsValidationFailure(out.res) => IsUnexpected(out.res))

\* what a Join or leave leaves of the roster, and the result code it returns
RosterResult(out, g) ==
    <<out.rooms[g].Actors, out.rooms[g].NextActorNr, out.res.ResultCode>>

\* the timestamps getISOTimestamp can hand to a handler
Timestamps == 1..(MaxClock + 1)

\* other contents of the per-player indexes: one player's game list emptied
ContentVariants(ls) ==
    {ls} \cup {[ls EXCEPT ![p].entries = [g \in Games |-> NoEntry]] : p \in Players}

\* other per-player indexes: one player's game list emptied, or never created
IndexVariants(ls) ==
    ContentVariants(ls) \cup {[ls EXCEPT ![p] = NoList] : p \in Players}

\* the roster and the result code of every Join and leave on the loaded
\* record do not change when the handler is run with timestamp t on indexes ls2
SameRosterResult(ls2, t) ==
    /\ \A e \in JoinEvents : \A p \in Callers(e) :
           rooms[e.GameId].exists =>
               RosterResult(RoomJoined(rooms, ls2, e, p, t), e.GameId)
                   = RosterResult(RoomJoined(rooms, lists, e, p, Now), e.GameId)
    /\ \A e \in LeaveEvents : \A p \in Callers(e) :
           rooms[e.GameId].exists =>
               RosterResult(RoomLeft(rooms, ls2, e, p, t), e.GameId)
                   = RosterResult(RoomLeft(rooms, lists, e, p, Now), e.GameId)

\* C33: for the same loaded room record and the same Join or leave event,
\* the resulting Actors, NextActorNr and result code are the same whatever
\* the timestamp and whatever the per-player indexes hold.
C33_RosterTransitionDeterministic ==
    \A ls2 \in IndexVariants(lists) : \A t \in Timestamps : SameRosterResult(ls2, t)

\* C33 over game lists that keep existing: only their entries differ
C33_DeterministicOverIndexContents ==
    \A ls2 \in ContentVariants(lists) : \A t \in Timestamps : SameRosterResult(ls2, t)

\* the query passes checkWebRpcArgs
ValidQuery(args) == checkWebRpcArgs(args).ResultCode = 0

\* the rooms for which player p's game list holds an entry
RoomsListed(p) == {g \in Games : lists[p].entries[g].present}

\* C34: a valid GetGameList query of a player whose game list exists returns
\* result code 0 and one element per room of the list: ActorNr 1 and the
\* custom properties of the caller's saved State for a room the caller
\* created (saved or not), the recorded actor number for a room of another
\* creator.
C34_GameListReturnsEveryEntry ==
    \A args \in RpcEvents :
        LET p == args.UserId
            out == GetGameList(rooms, lists, args, p, Now)
        IN  (ValidQuery(args) /\ lists[p].exists) =>
                /\ out.res.ResultCode = 0
                /\ DOMAIN out.Data = RoomsListed(p)
                /\ \A g \in RoomsListed(p) :
                       LET e == lists[p].entries[g] IN
                       IF e.Creation.UserId = p
                       THEN /\ out.Data[g].ActorNr = 1
                            /\ out.Data[g].Properties = CustomProperties(e.State)
                       ELSE out.Data[g].ActorNr = e.ActorNr

\* C34 for game lists that hold saved records only
C34_SavedRoomsListed ==
    \A args \in RpcEvents :
        LET p == args.UserId
            out == GetGameList(rooms, lists, args, p, Now)
        IN  (/\ ValidQuery(args) /\ lists[p].exists
             /\ \A g \in RoomsListed(p) : IsSavedRecord(lists[p].entries[g])) =>
                /\ out.res.ResultCode = 0
                /\ DOMAIN out.Data = RoomsListed(p)
                /\ \A g \in RoomsListed(p) :
                       /\ out.Data[g].ActorNr = 1
                       /\ out.Data[g].Properties = CustomProperties(lists[p].entries[g].State)

\* a player's game list holds the saved record of a room and nothing else
C34_SavedRoomReached ==
    \E p \in Players : /\ lists[p].exists /\ RoomsListed(p) # {}
                       /\ \A g \in RoomsListed(p) : IsSavedRecord(lists[p].entries[g])
                       /\ last.handler = "GetGameList" /\ last.res.ResultCode = 0

\* C35: a GetGameList query that passed validation, whether it then succeeds
\* or fails, leaves every room record and every per-player index as it
\* found them.
C35_GetGameListReadOnly ==
    \A args \in RpcEvents : \A p \in Players :
        LET out == GetGameList(rooms, lists, args, p, Now)
        IN  ValidQuery(args) => out.rooms = rooms /\ out.lists = lists

\* C35 witness: a validated query has failed while a room record and an
\* index entry exist
C35_Witness ==
    /\ last.handler = "GetGameList"
    /\ IsUnexpected(last.res)
    /\ \E g \in Games : rooms[g].exists
    /\ \E p \in Players : RoomsListed(p) # {}

\* rejected with the SemanticMismatch code, nothing written
RejectedAsMismatch(out) ==
    /\ out.res.kind = "return" /\ out.res.ResultCode = 2
    /\ out.rooms = rooms /\ out.lists = lists

\* the outcomes of validator-passing events delivered to a handler that is
\* not theirs; opts is the CreateOptions the envelope carries
WrongTypeOutcomes(opts) ==
    {RoomCreated(rooms, lists, [e EXCEPT !.CreateOptions = opts], e.UserId, Now) :
        e \in {x \in JoinEvents \cup LeaveEvents : Valid(x, x.UserId)}}
    \cup {RoomJoined(rooms, lists, e, e.UserId, Now) :
            e \in {x \in CreateEvents \cup LeaveEvents : Valid(x, x.UserId)}}
    \cup {RoomLeft(rooms, lists, e, e.UserId, Now) :
            e \in {x \in CreateEvents \cup JoinEvents : Valid(x, x.UserId)}}
    \cup {RoomClosed(rooms, lists, e, Undef, Now) :
            e \in {x \in CreateEvents \cup JoinEvents \cup LeaveEvents : Valid(x, Undef)}}

\* C36: a validator-passing event of a type that is not the handler's own
\* is rejected with result code 2 and changes no room record and no
\* per-player index.
C36_WrongTypeRejected ==
    \A out \in WrongTypeOutcomes(NoOptions) : RejectedAsMismatch(out)

\* C36 for envelopes that carry CreateOptions, on a room whose shared group
\* exists
C36_WrongTypeOnLiveRoom ==
    (\A g \in Games : rooms[g].exists) =>
        \A out \in WrongTypeOutcomes(Options(2, 0, FALSE)) : RejectedAsMismatch(out)

\* the handler returned a nonzero result code, or threw
Failed(out) == out.res.ResultCode # 0

\* C37: whenever a handler returns a nonzero result code, the room records
\* and the per-player indexes are exactly as they were before the event.
C37_FailedEventWritesNothing ==
    \A out \in WebhookOutcomes : Failed(out) => out.rooms = rooms /\ out.lists = lists

\* C37 in the states where every player's game list has been created
C37_FailedEventWithGameLists ==
    (\A p \in Players : lists[p].exists) =>
        \A out \in WebhookOutcomes : Failed(out) => out.rooms = rooms /\ out.lists = lists

\* the second delivery out2 of an event on room g is refused and leaves the
\* roster as the first delivery out1 left it
DuplicateRefused(out1, out2, g) ==
    /\ out2.res.ResultCode # 0
    /\ out2.rooms[g].Actors = out1.rooms[g].Actors
    /\ out2.rooms[g].NextActorNr = out1.rooms[g].NextActorNr

\* C38: when a Join or leave event has succeeded and the identical event is
\* delivered again with nothing in between, the second delivery returns a
\* nonzero result code and Actors and NextActorNr stay as the first left them.
C38_DuplicateDeliveryRefused ==
    /\ \A e \in JoinEvents : \A p \in Callers(e) :
           LET out1 == RoomJoined(rooms, lists, e, p, Now)
               out2 == RoomJoined(out1.rooms, out1.lists, e, p, Now + 1)
           IN  Succeeded(out1) => DuplicateRefused(out1, out2, e.GameId)
    /\ \A e \in LeaveEvents : \A p \in Callers(e) :
           LET out1 == RoomLeft(rooms, lists, e, p, Now)
               out2 == RoomLeft(out1.rooms, out1.lists, e, p, Now + 1)
           IN  Succeeded(out1) => DuplicateRefused(out1, out2, e.GameId)

\* C38 witness: the last change of the store was a successful Join of actor
\* 2, and a Join delivered after it has been refused for its actor number
C38_Witness ==
    /\ last.handler = "RoomJoined"
    /\ last.res.ResultCode = 2
    /\ last.res.Message = "Unexpected ActorNr"
    /\ \E g \in Games : /\ rooms[g].exists
                        /\ clock \in DOMAIN rooms[g].JoinEvents
                        /\ rooms[g].JoinEvents[clock].ActorNr = 2
                        /\ rooms[g].NextActorNr = 3

\* C39: under every interleaving of concurrently handled Join and leave
\* events on a room, NextActorNr of the persisted record is greater than
\* every key of its Actors.
C39_RaceKeepsNextActorNrAbove ==
    \A g \in Games :
        rooms[g].exists => \A n \in DOMAIN rooms[g].Actors : n < rooms[g].NextActorNr

\* C39 witness: a Join and a leave read the same record, the Join wrote
\* first, and the leave then wrote the whole record it had computed
C39_Witness ==
    \E a \in Procs, b \in Procs :
        /\ a # b /\ Done0(a) /\ Done0(b)
        /\ procs[a].handler = "RoomJoined" /\ procs[b].handler = "RoomLeft"
        /\ procs[a].read = procs[b].read
        /\ ~procs[a].stale /\ procs[b].stale
        /\ rooms[procs[b].args.GameId].NextActorNr = procs[b].data.NextActorNr

\* C40: a Close succeeds only on a room whose roster is empty, and after a
\* successful Close no player's game list holds an entry for the room.
C40_CloseLeavesNoIndexEntry ==
    \A e \in {x \in CloseEvents : x.Type = "Close"} :
        LET g == e.GameId
            out == RoomClosed(rooms, lists, e, Undef, Now)
        IN  Succeeded(out) =>
                /\ DOMAIN rooms[g].Actors = {}
                /\ \A p \in Players : ~out.lists[p].entries[g].present

\* C40, first half: a Close succeeds only on a room whose roster is empty,
\* and it removes the room's record and its creator's index entry
C40_CloseOnlyOnEmptyRoster ==
    \A e \in {x \in CloseEvents : x.Type = "Close"} :
        LET g == e.GameId
            out == RoomClosed(rooms, lists, e, Undef, Now)
        IN  Succeeded(out) =>
                /\ DOMAIN rooms[g].Actors = {}
                /\ ~out.rooms[g].exists
                /\ ~out.lists[rooms[g].Creation.UserId].entries[g].present

====
